---- MODULE Spec2Model ----
(***************************************************************************)
(* A state-machine model of the sudoku_gem solver: the Grid value type,    *)
(* the Validator bit-mask checks, the text loader of class Sudoku and its  *)
(* three recursive searches (color_node, bruteforce_node,                  *)
(* singular_decider), the latter run one call/return step at a time on an  *)
(* explicit call stack.                                                    *)
(*                                                                         *)
(* Encodings.  A std::uint_fast64_t mask is the set of its set bit         *)
(* positions, a subset of 0..63 (| is \cup, & is \cap, ~ is complement in  *)
(* 0..63).  A text is a sequence of one-character strings.  A Grid is a    *)
(* record [dim, m] with m[y][x] the cell of row y and column x, 0-based as *)
(* in the source.                                                          *)
(***************************************************************************)
EXTENDS Integers, Sequences, FiniteSets, TLC

VARIABLES
  grid,        \* Sudoku::grid
  status_ok,   \* Sudoku::status_ok
  shift_ub,    \* how this build evaluates an int shift whose count is out of range
  fresh,       \* history: no read_puzzle_* call was made on this object yet
  call,        \* the public method in progress, "none" when the object is idle
  stack,       \* activation records of the recursive search in progress
  ret,         \* what the search call that has just returned has returned
  result,      \* outcome of the last completed public call
  input,       \* history: the text of the last read_puzzle_* call, if the object's first
  pre,         \* history: the object as the public call in progress (or last) found it
  out,         \* the text last produced by to_s or print, and (history) its grid
  verdict,     \* history: what color_node returned for which starting board, and left
  probe,       \* the last direct call of a Grid or Validator function, and what it gave
  good_leaves  \* history: fully determined boards that passed is_good_board in this search

vars == <<grid, status_ok, shift_ub, fresh, call, stack, ret, result, input,
          pre, out, verdict, probe, good_leaves>>

-----------------------------------------------------------------------------
(* Grid                                                                    *)

\* The value that marks an undetermined cell.
UNKNOWN == -1

\* Grid::Grid(n): boost::multi_array value-initialises its elements.
Grid(n) == [dim |-> n, m |-> [y \in 0..(n - 1) |-> [x \in 0..(n - 1) |-> 0]]]

\* Grid::get
GridGet(g, x, y) == g.m[y][x]

\* Grid::set
GridSet(g, x, y, i) == [g EXCEPT !.m[y][x] = i]

\* Grid::reset(n): multi_array::resize keeps the elements whose indices exist
\* in both shapes and value-initialises the others.
GridReset(g, n) ==
  [dim |-> n,
   m   |-> [y \in 0..(n - 1) |-> [x \in 0..(n - 1) |->
              IF y < g.dim /\ x < g.dim THEN g.m[y][x] ELSE 0]]]

\* std::size_t(sqrt(n) + 0.5)
NRoot(n) ==
  CHOOSE r \in 0..n :
    /\ (r = 0 \/ (2 * r - 1) * (2 * r - 1) <= 4 * n)
    /\ 4 * n < (2 * r + 1) * (2 * r + 1)

-----------------------------------------------------------------------------
(* Validator                                                               *)

Word64 == 0..63

\* The outcomes a build gives an int shift with an out-of-range count: the
\* count taken modulo 32 (x86 SHL) or a zero result (a shifter that shifts
\* everything out).
ShiftOutcomes == {"count_mod_32", "zero"}

\* The int expression (1 << k), converted to std::uint_fast64_t.
RECURSIVE Shl1(_)
Shl1(k) ==
  IF k \in 0..30 THEN {k}
  ELSE IF k = 31 THEN 31..63            \* INT_MIN, sign-extended
  ELSE IF shift_ub = "count_mod_32" THEN Shl1(k % 32)
  ELSE {}

\* The int expression (1 << n) - 1, converted to std::uint_fast64_t.
LowMask(n) ==
  LET one == Shl1(n) IN
    IF one = {} THEN Word64                      \* 0 - 1
    ELSE IF one = 31..63 THEN 0..30              \* INT_MIN - 1 wraps
    ELSE 0..((CHOOSE k \in one : TRUE) - 1)

RowCells(g, y) == [i \in 1..g.dim |-> GridGet(g, i - 1, y)]

ColumnCells(g, x) == [i \in 1..g.dim |-> GridGet(g, x, i - 1)]

\* The cells of the block whose top-left corner is (x, y), y_off outer.
BlockCells(g, x, y) ==
  LET r == NRoot(g.dim) IN
    [i \in 1..(r * r) |-> GridGet(g, x + ((i - 1) % r), y + ((i - 1) \div r))]

\* The loops of the Validator run over the cells lo..hi of a sequence, the
\* first half and then, unless the loop has returned, the second (which keeps
\* the nesting of the evaluation shallow on long rows); st is the state the
\* loop carries: ok, false once the loop has executed its "return false", and
\* mask.  The state after the first half is bound by a set constructor, so
\* that it is computed once before the second half starts.
ScanStart == [ok |-> TRUE, mask |-> {}]

\* One iteration of the loop of is_good_row / is_good_column / is_good_block.
StrictStep(st, a) ==
  IF ~st.ok THEN st
  ELSE IF a = UNKNOWN \/ (st.mask \cap Shl1(a - 1)) # {} THEN [st EXCEPT !.ok = FALSE]
  ELSE [st EXCEPT !.mask = st.mask \cup Shl1(a - 1)]

\* The loop of is_good_row / is_good_column / is_good_block.
RECURSIVE StrictScan(_, _, _, _)
StrictScan(cells, lo, hi, st) ==
  IF lo > hi THEN st
  ELSE IF lo = hi THEN StrictStep(st, cells[lo])
  ELSE LET mid == (lo + hi) \div 2
       IN CHOOSE r \in {IF left.ok THEN StrictScan(cells, mid + 1, hi, left) ELSE left :
                          left \in {StrictScan(cells, lo, mid, st)}} : TRUE

\* The loop followed by "return (mask == valid_mask)".
StrictResult(cells, n) ==
  LET st == StrictScan(cells, 1, Len(cells), ScanStart)
  IN st.ok /\ st.mask = LowMask(n)

is_good_row(g, y) == StrictResult(RowCells(g, y), g.dim)

is_good_column(g, x) == StrictResult(ColumnCells(g, x), g.dim)

is_good_block(g, x, y) == StrictResult(BlockCells(g, x, y), g.dim)

is_good_board(g) ==
  LET n == g.dim
      r == NRoot(n)
  IN /\ \A y \in 0..(n - 1) : is_good_row(g, y)
     /\ \A x \in 0..(n - 1) : is_good_column(g, x)
     /\ \A x \in 0..(r - 1) : \A y \in 0..(r - 1) : is_good_block(g, x * r, y * r)

\* What one iteration of the loop of row_colors / column_colors /
\* block_colors ORs into mask.
ColorsStep(a) == IF a # UNKNOWN THEN Shl1(a - 1) ELSE {}

\* The loop of row_colors / column_colors / block_colors: mask starts at 0 and
\* has the bits of every iteration ORed into it.
RECURSIVE ColorsScan(_, _, _)
ColorsScan(cells, lo, hi) ==
  IF lo > hi THEN {}
  ELSE IF lo = hi THEN ColorsStep(cells[lo])
  ELSE LET mid == (lo + hi) \div 2
       IN ColorsScan(cells, lo, mid) \cup ColorsScan(cells, mid + 1, hi)

row_colors(g, y) == ColorsScan(RowCells(g, y), 1, g.dim)

column_colors(g, x) == ColorsScan(ColumnCells(g, x), 1, g.dim)

block_colors(g, x, y) ==
  LET cells == BlockCells(g, x, y) IN ColorsScan(cells, 1, Len(cells))

\* A faulty variant of good_colors that leaves the column out.
good_colors_without_column(g, x, y) ==
  LET n == g.dim
      r == NRoot(n)
      row_mask   == row_colors(g, y)
      block_mask == block_colors(g, (x \div r) * r, (y \div r) * r)
  IN (Word64 \ (row_mask \cup block_mask)) \cap LowMask(n)

good_colors(g, x, y) ==
  LET n == g.dim
      r == NRoot(n)
      row_mask   == row_colors(g, y)
      col_mask   == column_colors(g, x)
      block_mask == block_colors(g, (x \div r) * r, (y \div r) * r)
  IN (Word64 \ (row_mask \cup col_mask \cup block_mask)) \cap LowMask(n)

\* One iteration of the loop of is_good_partial_row / _column / _block.
PartialStep(st, a) ==
  IF ~st.ok \/ a = UNKNOWN THEN st
  ELSE IF (st.mask \cap Shl1(a - 1)) # {} THEN [st EXCEPT !.ok = FALSE]
  ELSE [st EXCEPT !.mask = st.mask \cup Shl1(a - 1)]

\* The loop of is_good_partial_row / _column / _block.
RECURSIVE PartialScan(_, _, _, _)
PartialScan(cells, lo, hi, st) ==
  IF lo > hi THEN st
  ELSE IF lo = hi THEN PartialStep(st, cells[lo])
  ELSE LET mid == (lo + hi) \div 2
       IN CHOOSE r \in {IF left.ok THEN PartialScan(cells, mid + 1, hi, left) ELSE left :
                          left \in {PartialScan(cells, lo, mid, st)}} : TRUE

is_good_partial_row(g, y) == PartialScan(RowCells(g, y), 1, g.dim, ScanStart).ok

is_good_partial_column(g, x) == PartialScan(ColumnCells(g, x), 1, g.dim, ScanStart).ok

is_good_partial_block(g, x, y) ==
  LET cells == BlockCells(g, x, y) IN PartialScan(cells, 1, Len(cells), ScanStart).ok

is_good_partial_board(g) ==
  LET n == g.dim
      r == NRoot(n)
  IN /\ \A y \in 0..(n - 1) : is_good_partial_row(g, y)
     /\ \A x \in 0..(n - 1) : is_good_partial_column(g, x)
     /\ \A x \in 0..(r - 1) : \A y \in 0..(r - 1) :
          is_good_partial_block(g, x * r, y * r)

-----------------------------------------------------------------------------
(* Text: std::getline, boost::split, std::stoi, operator<<                 *)

Digits == <<"0", "1", "2", "3", "4", "5", "6", "7", "8", "9">>

IsDigit(c) == \E i \in 1..10 : Digits[i] = c

DigitVal(c) == (CHOOSE i \in 1..10 : Digits[i] = c) - 1

\* std::isspace in the "C" locale, which std::stoi (strtol) skips first.
IsSpace(c) == c \in {" ", "\t", "\n", "\r", "\f"}

\* A std::istream over the text s, before anything is read.
Stream(s) == [buf |-> s, pos |-> 1, eof |-> FALSE, fail |-> FALSE]

\* std::getline(f, line): when the stream is no longer good the sentry fails,
\* failbit is set and line keeps its old contents; otherwise line is erased
\* and filled up to the next newline (which is consumed) or the end of input
\* (eofbit, and failbit when nothing was extracted).
GetLine(st, line) ==
  IF st.eof \/ st.fail THEN [st |-> [st EXCEPT !.fail = TRUE], line |-> line]
  ELSE
    LET n  == Len(st.buf)
        nl == {j \in st.pos..n : st.buf[j] = "\n"}
    IN IF nl # {}
       THEN LET j == CHOOSE a \in nl : \A b \in nl : a <= b
            IN [st |-> [st EXCEPT !.pos = j + 1],
                line |-> SubSeq(st.buf, st.pos, j - 1)]
       ELSE [st |-> [st EXCEPT !.pos = n + 1, !.eof = TRUE, !.fail = (st.pos > n)],
             line |-> SubSeq(st.buf, st.pos, n)]

\* boost::split(tokens, line, is_any_of(" ")) on line[lo..hi]: every space
\* ends a token, so adjacent spaces give empty tokens and an empty line gives
\* one empty token.  (Computed by halving: the last token of the left half
\* and the first of the right half are one token.)
RECURSIVE SplitRange(_, _, _)
SplitRange(line, lo, hi) ==
  IF lo > hi THEN << <<>> >>
  ELSE IF lo = hi THEN (IF line[lo] = " " THEN << <<>>, <<>> >> ELSE << <<line[lo]>> >>)
  ELSE LET mid   == (lo + hi) \div 2
           left  == SplitRange(line, lo, mid)
           right == SplitRange(line, mid + 1, hi)
       IN SubSeq(left, 1, Len(left) - 1)
            \o << left[Len(left)] \o right[1] >>
            \o Tail(right)

Split(line) == SplitRange(line, 1, Len(line))

\* The digits of token from index i on, as a magnitude: big = 0 when the
\* magnitude is v, 1 when it is exactly 2^31, 2 when it is larger.
RECURSIVE Magnitude(_, _, _, _)
Magnitude(token, i, v, big) ==
  IF i > Len(token) \/ ~IsDigit(token[i]) THEN [v |-> v, big |-> big]
  ELSE LET d == DigitVal(token[i]) IN
    IF big = 0 /\ (v < 214748364 \/ (v = 214748364 /\ d <= 7))
      THEN Magnitude(token, i + 1, 10 * v + d, 0)
    ELSE IF big = 0 /\ v = 214748364 /\ d = 8
      THEN Magnitude(token, i + 1, v, 1)
    ELSE Magnitude(token, i + 1, v, 2)

RECURSIVE SkipSpace(_, _)
SkipSpace(token, i) ==
  IF i <= Len(token) /\ IsSpace(token[i]) THEN SkipSpace(token, i + 1) ELSE i

\* std::stoi(token): leading white space is skipped, an optional sign and the
\* longest run of decimal digits are converted and whatever follows is
\* ignored; no digit at all throws std::invalid_argument, a value that does
\* not fit an int throws std::out_of_range.
Stoi(token) ==
  LET i0    == SkipSpace(token, 1)
      sign  == i0 <= Len(token) /\ token[i0] \in {"+", "-"}
      neg   == sign /\ token[i0] = "-"
      i1    == IF sign THEN i0 + 1 ELSE i0
      mag   == Magnitude(token, i1, 0, 0)
  IN IF i1 > Len(token) \/ ~IsDigit(token[i1])
       THEN [kind |-> "invalid_argument", value |-> 0]
     ELSE IF mag.big = 2 \/ (mag.big = 1 /\ ~neg)
       THEN [kind |-> "out_of_range", value |-> 0]
     ELSE IF mag.big = 1
       THEN [kind |-> "ok", value |-> (0 - 2147483647) - 1]
     ELSE [kind |-> "ok", value |-> IF neg THEN 0 - mag.v ELSE mag.v]

\* out << int
RECURSIVE NatToChars(_)
NatToChars(v) ==
  IF v < 10 THEN <<Digits[v + 1]>>
  ELSE Append(NatToChars(v \div 10), Digits[(v % 10) + 1])

IntToChars(v) == IF v < 0 THEN <<"-">> \o NatToChars(0 - v) ELSE NatToChars(v)

\* Grid::to_s: rows separated by std::endl, cells by one space.
RECURSIVE GridRowToS(_, _, _)
GridRowToS(g, y, x) ==
  IF x >= g.dim THEN <<>>
  ELSE (IF x # 0 THEN <<" ">> ELSE <<>>) \o IntToChars(GridGet(g, x, y))
         \o GridRowToS(g, y, x + 1)

RECURSIVE GridToSFrom(_, _)
GridToSFrom(g, y) ==
  IF y >= g.dim THEN <<>>
  ELSE (IF y # 0 THEN <<"\n">> ELSE <<>>) \o GridRowToS(g, y, 0)
         \o GridToSFrom(g, y + 1)

GridToS(g) == GridToSFrom(g, 0)

\* boost::replace_all(str, "-1", "?") on str[lo..hi]: every "-" followed by
\* "1" becomes "?" and that "1" is dropped (two occurrences of "-1" cannot
\* overlap).  Computed by halving.
RECURSIVE ReplaceRange(_, _, _)
ReplaceRange(str, lo, hi) ==
  IF lo > hi THEN <<>>
  ELSE IF lo = hi
    THEN IF str[lo] = "-" /\ lo < Len(str) /\ str[lo + 1] = "1" THEN <<"?">>
         ELSE IF str[lo] = "1" /\ lo > 1 /\ str[lo - 1] = "-" THEN <<>>
         ELSE <<str[lo]>>
  ELSE LET mid == (lo + hi) \div 2
       IN ReplaceRange(str, lo, mid) \o ReplaceRange(str, mid + 1, hi)

\* A faulty variant of Sudoku::to_s, without the replace_all: an undetermined
\* cell is written as -1.
ToSWithoutReplace(g) == GridToS(g)

\* Sudoku::to_s
SudokuToS(g) == LET str == GridToS(g) IN ReplaceRange(str, 1, Len(str))

-----------------------------------------------------------------------------
(* Sudoku: loading                                                         *)

\* Sudoku::insert_row: res is "true", "false", or "out_of_range" when stoi's
\* std::out_of_range (which nothing catches) leaves the method.
RECURSIVE InsertRowFrom(_, _, _, _)
InsertRowFrom(g, tokens, y, x) ==
  IF x >= g.dim THEN [g |-> g, res |-> "true"]
  ELSE
    LET token == tokens[x + 1]
        v     == Stoi(token)
    IN CASE v.kind = "out_of_range" -> [g |-> g, res |-> "out_of_range"]
         [] v.kind = "ok" ->
              IF v.value < 1 \/ v.value > g.dim
                THEN [g |-> g, res |-> "false"]
                ELSE InsertRowFrom(GridSet(g, x, y, v.value), tokens, y, x + 1)
         [] OTHER ->
              IF token = <<"?">>
                THEN InsertRowFrom(GridSet(g, x, y, UNKNOWN), tokens, y, x + 1)
                ELSE [g |-> g, res |-> "false"]

insert_row(g, tokens, y) == InsertRowFrom(g, tokens, y, 0)

\* std::size_t(sqrt(n))
FloorSqrt(n) == CHOOSE r \in 0..n : r * r <= n /\ n < (r + 1) * (r + 1)

\* The "read n-1 lines" loop of parse_puzzle.
RECURSIVE ReadRows(_, _, _, _, _)
ReadRows(g, st, line, y, n) ==
  IF y >= n THEN [g |-> g, res |-> "true"]
  ELSE
    LET rd     == GetLine(st, line)
        tokens == Split(rd.line)
    IN IF Len(tokens) # n THEN [g |-> g, res |-> "false"]
       ELSE LET row == insert_row(g, tokens, y)
            IN IF row.res # "true" THEN row
               ELSE ReadRows(row.g, rd.st, rd.line, y + 1, n)

\* Sudoku::parse_puzzle on the grid g of the object and a stream over s.
parse_puzzle(g, s) ==
  LET rd     == GetLine(Stream(s), <<>>)
      tokens == Split(rd.line)
      n      == Len(tokens)
      n_sq   == FloorSqrt(n)
  IN IF n = 0 \/ rd.line = <<>> THEN [g |-> g, res |-> "false"]
     ELSE IF n_sq * n_sq # n /\ (n_sq + 1) * (n_sq + 1) # n
       THEN [g |-> g, res |-> "false"]
     ELSE IF n > 64 THEN [g |-> g, res |-> "false"]
     ELSE LET row == insert_row(GridReset(g, n), tokens, 0)
          IN IF row.res # "true" THEN row
             ELSE ReadRows(row.g, rd.st, rd.line, 1, n)

\* A faulty variant of Sudoku::validate that accepts every board.
AlwaysValid(g) == TRUE

\* Sudoku::validate
validate(g) == is_good_partial_board(g)

-----------------------------------------------------------------------------
(* Sudoku: the recursive searches, one call/return step at a time          *)

\* A faulty variant of find_unknown whose inner loop starts at column x on
\* every row.
RECURSIVE find_unknown_same_column(_, _, _)
find_unknown_same_column(g, x, y) ==
  IF y >= g.dim THEN [found |-> FALSE, x |-> 0, y |-> 0]
  ELSE LET xs == {a \in x..(g.dim - 1) : GridGet(g, a, y) = UNKNOWN}
       IN IF xs # {}
            THEN [found |-> TRUE, x |-> CHOOSE a \in xs : \A b \in xs : a <= b, y |-> y]
            ELSE find_unknown_same_column(g, x, y + 1)

\* Sudoku::find_unknown from (x, y) on: the row-major scan, the inner loop
\* over the rest of row y, x restarting at 0 on every later row.
RECURSIVE find_unknown(_, _, _)
find_unknown(g, x, y) ==
  IF y >= g.dim THEN [found |-> FALSE, x |-> 0, y |-> 0]
  ELSE LET xs == {a \in x..(g.dim - 1) : GridGet(g, a, y) = UNKNOWN}
       IN IF xs # {}
            THEN [found |-> TRUE, x |-> CHOOSE a \in xs : \A b \in xs : a <= b, y |-> y]
            ELSE find_unknown(g, 0, y + 1)

NoRet == [kind |-> "none", b |-> FALSE, n |-> 0, entry |-> Grid(0)]

\* A returned bool / int, with the board the returning call had been given.
RetBool(v, entry) == [kind |-> "bool", b |-> v, n |-> 0, entry |-> entry]

RetInt(k, entry) == [kind |-> "int", b |-> FALSE, n |-> k, entry |-> entry]

\* The activation record of a call fn(cur_grid, [found_one,] cur_x, cur_y)
\* that has not run yet.  cur_grid is a reference: to the caller's new_grid,
\* or to this->grid for the outermost call.  entry (history) is its value on
\* entry.
Frame(fn, found_one, cur_x, cur_y, cur) ==
  [fn |-> fn, pc |-> "enter", cur_x |-> cur_x, cur_y |-> cur_y,
   found_one |-> found_one, unknown_x |-> 0, unknown_y |-> 0, colors |-> {},
   new_grid |-> Grid(0), i |-> 0, entry |-> cur]

Depth == Len(stack)

Top == stack[Depth]

\* What the reference cur_grid of the call at depth d denotes.
CurGrid(d) == IF d = 1 THEN grid ELSE stack[d - 1].new_grid

\* A faulty variant of Return: a call that has cloned cur_grid executes
\* "cur_grid = new_grid" on every return, the failing ones included.
ReturnAdopting(r) ==
  /\ ret' = r
  /\ IF Top.pc # "loop"
       THEN /\ grid' = grid
            /\ stack' = SubSeq(stack, 1, Depth - 1)
       ELSE IF Depth = 1
         THEN /\ grid' = Top.new_grid
              /\ stack' = <<>>
         ELSE /\ grid' = grid
              /\ stack' = [SubSeq(stack, 1, Depth - 1)
                             EXCEPT ![Depth - 1].new_grid = Top.new_grid]

\* The top call returns r.
Return(r) ==
  /\ stack' = SubSeq(stack, 1, Depth - 1)
  /\ ret' = r
  /\ grid' = grid

\* A faulty variant of AdoptAndReturn, without the "cur_grid = new_grid".
AdoptNothing(r) ==
  /\ stack' = SubSeq(stack, 1, Depth - 1)
  /\ ret' = r
  /\ grid' = grid

\* The top call executes "cur_grid = new_grid" and returns r.
AdoptAndReturn(r) ==
  /\ ret' = r
  /\ IF Depth = 1
       THEN /\ grid' = Top.new_grid
            /\ stack' = <<>>
       ELSE /\ grid' = grid
            /\ stack' = [SubSeq(stack, 1, Depth - 1)
                           EXCEPT ![Depth - 1].new_grid = Top.new_grid]

\* The top call writes i into its clone and calls fn on the clone.
Descend(fn, found_one) ==
  LET f  == Top
      ng == GridSet(f.new_grid, f.unknown_x, f.unknown_y, f.i)
  IN /\ stack' = Append([stack EXCEPT ![Depth] = [f EXCEPT !.new_grid = ng,
                                                       !.pc = "wait"]],
                        Frame(fn, found_one, f.unknown_x, f.unknown_y, ng))
     /\ ret' = NoRet
     /\ grid' = grid

\* A faulty variant of NextValue, without the i++.
NextValueStuck(found_one) ==
  /\ stack' = [stack EXCEPT ![Depth] = [Top EXCEPT !.pc = "loop",
                                                  !.found_one = found_one]]
  /\ ret' = NoRet
  /\ grid' = grid

\* The top call goes on to the next value of i.
NextValue(found_one) ==
  /\ stack' = [stack EXCEPT ![Depth] = [Top EXCEPT !.i = Top.i + 1, !.pc = "loop",
                                                  !.found_one = found_one]]
  /\ ret' = NoRet
  /\ grid' = grid

\* A faulty variant of StartLoop whose loop starts at i = 2.
StartLoopAtTwo(u, colors) ==
  /\ stack' = [stack EXCEPT ![Depth] =
                 [Top EXCEPT !.unknown_x = u.x, !.unknown_y = u.y,
                             !.colors = colors, !.new_grid = CurGrid(Depth),
                             !.i = 2, !.pc = "loop"]]
  /\ ret' = NoRet
  /\ grid' = grid

\* The top call has found an undetermined cell u: it clones cur_grid and
\* starts its loop at i = 1.
StartLoop(u, colors) ==
  /\ stack' = [stack EXCEPT ![Depth] =
                 [Top EXCEPT !.unknown_x = u.x, !.unknown_y = u.y,
                             !.colors = colors, !.new_grid = CurGrid(Depth),
                             !.i = 1, !.pc = "loop"]]
  /\ ret' = NoRet
  /\ grid' = grid

Running(fn, pc) == /\ call # "none"
                   /\ Depth > 0
                   /\ Top.fn = fn
                   /\ Top.pc = pc

SearchFrame == UNCHANGED <<status_ok, shift_ub, fresh, call, result, input, pre,
                           out, verdict, probe>>

\* good_leaves goes up by one when the top call, just entered, finds its board
\* fully determined and is_good_board accepts it.
CountLeaf ==
  LET cur == CurGrid(Depth) IN
    good_leaves' = IF ~find_unknown(cur, Top.cur_x, Top.cur_y).found /\ is_good_board(cur)
                     THEN good_leaves + 1
                     ELSE good_leaves

\* color_node, from entry to the head of its loop or to its leaf return.
ColorEnter ==
  /\ Running("color_node", "enter")
  /\ LET cur == CurGrid(Depth)
         u   == find_unknown(cur, Top.cur_x, Top.cur_y)
     IN IF u.found
          THEN StartLoop(u, good_colors(cur, u.x, u.y))
          ELSE Return(RetBool(is_good_board(cur), Top.entry))
  /\ SearchFrame
  /\ CountLeaf

\* A faulty variant of ColorTry that tests bit i of colors instead of bit
\* i - 1.
ColorTryOffByOne ==
  /\ Running("color_node", "loop")
  /\ IF Top.i <= CurGrid(Depth).dim
       THEN IF (Top.colors \cap Shl1(Top.i)) # {}
              THEN Descend("color_node", FALSE)
              ELSE NextValue(FALSE)
       ELSE Return(RetBool(FALSE, Top.entry))
  /\ SearchFrame
  /\ UNCHANGED good_leaves

\* color_node, one iteration of its loop up to the recursive call, or the
\* "return false" after the loop.
ColorTry ==
  /\ Running("color_node", "loop")
  /\ IF Top.i <= CurGrid(Depth).dim
       THEN IF (Top.colors \cap Shl1(Top.i - 1)) # {}
              THEN Descend("color_node", FALSE)
              ELSE NextValue(FALSE)
       ELSE Return(RetBool(FALSE, Top.entry))
  /\ SearchFrame
  /\ UNCHANGED good_leaves

\* color_node, after its recursive call has returned.
ColorResume ==
  /\ Running("color_node", "wait")
  /\ ret.kind = "bool"
  /\ IF ret.b
       THEN AdoptAndReturn(RetBool(TRUE, Top.entry))
       ELSE NextValue(FALSE)
  /\ SearchFrame
  /\ UNCHANGED good_leaves

\* bruteforce_node, from entry to the head of its loop or to its leaf return.
BruteEnter ==
  /\ Running("bruteforce_node", "enter")
  /\ LET cur == CurGrid(Depth)
         u   == find_unknown(cur, Top.cur_x, Top.cur_y)
     IN IF u.found
          THEN StartLoop(u, {})
          ELSE Return(RetBool(is_good_board(cur), Top.entry))
  /\ SearchFrame
  /\ CountLeaf

\* bruteforce_node, one iteration of its loop up to the recursive call, or
\* the "return false" after the loop.
BruteTry ==
  /\ Running("bruteforce_node", "loop")
  /\ IF Top.i <= CurGrid(Depth).dim
       THEN Descend("bruteforce_node", FALSE)
       ELSE Return(RetBool(FALSE, Top.entry))
  /\ SearchFrame
  /\ UNCHANGED good_leaves

\* bruteforce_node, after its recursive call has returned.
BruteResume ==
  /\ Running("bruteforce_node", "wait")
  /\ ret.kind = "bool"
  /\ IF ret.b
       THEN AdoptAndReturn(RetBool(TRUE, Top.entry))
       ELSE NextValue(FALSE)
  /\ SearchFrame
  /\ UNCHANGED good_leaves

\* singular_decider, from entry to the head of its loop or to its leaf return.
DeciderEnter ==
  /\ Running("singular_decider", "enter")
  /\ LET cur == CurGrid(Depth)
         u   == find_unknown(cur, Top.cur_x, Top.cur_y)
     IN IF u.found
          THEN StartLoop(u, good_colors(cur, u.x, u.y))
          ELSE IF is_good_board(cur)
                 THEN Return(RetInt(IF Top.found_one THEN 2 ELSE 1, Top.entry))
                 ELSE Return(RetInt(0, Top.entry))
  /\ SearchFrame
  /\ CountLeaf

\* singular_decider, one iteration of its loop up to the recursive call, or
\* the "return found_one ? 1 : 0" after the loop.
DeciderTry ==
  /\ Running("singular_decider", "loop")
  /\ IF Top.i <= CurGrid(Depth).dim
       THEN IF (Top.colors \cap Shl1(Top.i - 1)) # {}
              THEN Descend("singular_decider", Top.found_one)
              ELSE NextValue(Top.found_one)
       ELSE Return(RetInt(IF Top.found_one THEN 1 ELSE 0, Top.entry))
  /\ SearchFrame
  /\ UNCHANGED good_leaves

\* A faulty variant of DeciderResume whose case 1 does not set found_one.
DeciderResumeForgetful ==
  /\ Running("singular_decider", "wait")
  /\ ret.kind = "int"
  /\ CASE ret.n = 2 -> Return(RetInt(2, Top.entry))
       [] OTHER     -> NextValue(Top.found_one)
  /\ SearchFrame
  /\ UNCHANGED good_leaves

\* A faulty variant of DeciderResume whose case 2 goes on with the loop.
DeciderResumeExhaustive ==
  /\ Running("singular_decider", "wait")
  /\ ret.kind = "int"
  /\ CASE ret.n = 0 -> NextValue(Top.found_one)
       [] OTHER     -> NextValue(TRUE)
  /\ SearchFrame
  /\ UNCHANGED good_leaves

\* A faulty variant of DeciderResume whose case 2 executes
\* "cur_grid = new_grid" before it returns, as color_node does on success.
DeciderResumeAdopting ==
  /\ Running("singular_decider", "wait")
  /\ ret.kind = "int"
  /\ CASE ret.n = 0 -> NextValue(Top.found_one)
       [] ret.n = 1 -> NextValue(TRUE)
       [] OTHER     -> AdoptAndReturn(RetInt(2, Top.entry))
  /\ SearchFrame
  /\ UNCHANGED good_leaves

\* singular_decider, the switch on what its recursive call returned.
DeciderResume ==
  /\ Running("singular_decider", "wait")
  /\ ret.kind = "int"
  /\ CASE ret.n = 0 -> NextValue(Top.found_one)
       [] ret.n = 1 -> NextValue(TRUE)
       [] OTHER     -> Return(RetInt(2, Top.entry))
  /\ SearchFrame
  /\ UNCHANGED good_leaves

-----------------------------------------------------------------------------
(* Sudoku: the public methods                                              *)

\* No direct call yet.  sets counts the calls of set since the grid was
\* constructed or assigned.
NoProbe == [op |-> "none", x |-> 0, y |-> 0, i |-> 0, before |-> Grid(0),
            val |-> 0, mask |-> {}, row_mask |-> {}, col_mask |-> {},
            block_mask |-> {}, b |-> FALSE, outcome |-> "none", sets |-> 0]

NoOut == [has |-> FALSE, text |-> <<>>, of |-> Grid(0)]

NoVerdict == [has |-> FALSE, board |-> Grid(0), b |-> FALSE, after |-> Grid(0)]

\* The outcome of a public call: val is what the caller gets ("true",
\* "false", "void", or the exception that left the call); parsed (history) is
\* what parse_puzzle returned, first whether the object was fresh, read
\* whether the call read any cell of the board.
Outcome(op, val, parsed, first, read) ==
  [op |-> op, val |-> val, parsed |-> parsed, first |-> first, read |-> read]

NoOutcome == Outcome("none", "void", FALSE, FALSE, FALSE)

\* The object as a public call finds it; rejected (history, kept for singular
\* only): the call before was a load that parsed its text and returned false.
Object == [grid |-> grid, ok |-> status_ok, rejected |-> FALSE]

NoObject == [grid |-> Grid(0), ok |-> FALSE, rejected |-> FALSE]

\* The number of undetermined cells of g.
UnknownCount(g) ==
  Cardinality({c \in (0..(g.dim - 1)) \X (0..(g.dim - 1)) : g.m[c[2]][c[1]] = UNKNOWN})

\* The most undetermined cells a generated board has, and the most a board may
\* have for the exhaustive search to be started on it.
MaxBlank == 4

\* Sudoku::Sudoku(): a new object takes the place of the current one.
Construct ==
  /\ call = "none"
  /\ grid' = Grid(0)
  /\ status_ok' = FALSE
  /\ fresh' = TRUE
  /\ stack' = <<>>
  /\ ret' = NoRet
  /\ result' = NoOutcome
  /\ input' = <<>>
  /\ pre' = NoObject
  /\ verdict' = NoVerdict
  /\ good_leaves' = 0
  /\ UNCHANGED <<shift_ub, call, out, probe>>

\* Sudoku::read_puzzle_from_string(s) (read_puzzle_from_file has the same
\* body over the caller's stream).
read_puzzle_from_string(s) ==
  /\ call = "none"
  /\ LET p  == parse_puzzle(grid, s)
         ok == IF p.res = "true" THEN validate(p.g) ELSE FALSE
     IN /\ grid' = p.g
        /\ status_ok' = (status_ok \/ ok)
        /\ result' = Outcome("read_puzzle_from_string",
                             IF p.res = "out_of_range" THEN "out_of_range"
                             ELSE IF ok THEN "true" ELSE "false",
                             p.res = "true", fresh, TRUE)
        /\ verdict' = IF verdict.has /\ verdict.board = p.g THEN verdict ELSE NoVerdict
  /\ fresh' = FALSE
  /\ input' = IF fresh THEN s ELSE <<>>
  /\ pre' = NoObject
  /\ out' = IF out.has /\ out.text = s THEN out ELSE NoOut
  /\ ret' = NoRet
  /\ good_leaves' = 0
  /\ UNCHANGED <<shift_ub, call, stack, probe>>

\* A faulty variant of Sudoku::print, without the test of status_ok.
print_unchecked ==
  /\ call = "none"
  /\ pre' = Object
  /\ result' = Outcome("print", "void", FALSE, FALSE, TRUE)
  /\ out' = [has |-> TRUE, text |-> SudokuToS(grid) \o <<"\n">>, of |-> grid]
  /\ input' = <<>>
  /\ verdict' = NoVerdict
  /\ ret' = NoRet
  /\ good_leaves' = 0
  /\ UNCHANGED <<grid, status_ok, shift_ub, fresh, call, stack, probe>>

\* Sudoku::print
print ==
  /\ call = "none"
  /\ pre' = Object
  /\ IF ~status_ok
       THEN /\ result' = Outcome("print", "logic_error", FALSE, FALSE, FALSE)
            /\ out' = NoOut
       ELSE /\ result' = Outcome("print", "void", FALSE, FALSE, TRUE)
            /\ out' = [has |-> TRUE, text |-> SudokuToS(grid) \o <<"\n">>, of |-> grid]
  /\ input' = <<>>
  /\ verdict' = NoVerdict
  /\ ret' = NoRet
  /\ good_leaves' = 0
  /\ UNCHANGED <<grid, status_ok, shift_ub, fresh, call, stack, probe>>

\* Sudoku::to_s
to_s ==
  /\ call = "none"
  /\ pre' = Object
  /\ result' = Outcome("to_s", "void", FALSE, FALSE, TRUE)
  /\ out' = [has |-> TRUE, text |-> SudokuToS(grid), of |-> grid]
  /\ input' = <<>>
  /\ verdict' = NoVerdict
  /\ ret' = NoRet
  /\ good_leaves' = 0
  /\ UNCHANGED <<grid, status_ok, shift_ub, fresh, call, stack, probe>>

\* Sudoku::solve_colorability_style up to its call of color_node.
solve_colorability_style ==
  /\ call = "none"
  /\ pre' = Object
  /\ IF ~status_ok
       THEN /\ result' = Outcome("solve_colorability_style", "logic_error",
                                 FALSE, FALSE, FALSE)
            /\ UNCHANGED <<call, stack>>
       ELSE /\ result' = NoOutcome
            /\ call' = "solve_colorability_style"
            /\ stack' = <<Frame("color_node", FALSE, 0, 0, grid)>>
  /\ input' = <<>>
  /\ out' = NoOut
  /\ verdict' = NoVerdict
  /\ ret' = NoRet
  /\ good_leaves' = 0
  /\ UNCHANGED <<grid, status_ok, shift_ub, fresh, probe>>

\* Sudoku::solve_colorability_style once color_node has returned: the value
\* is dropped, the method returns void.
solve_colorability_return ==
  /\ call = "solve_colorability_style"
  /\ Depth = 0
  /\ ret.kind = "bool"
  /\ call' = "none"
  /\ result' = Outcome("solve_colorability_style", "void", FALSE, FALSE, TRUE)
  /\ verdict' = [has |-> TRUE, board |-> pre.grid, b |-> ret.b, after |-> grid]
  /\ UNCHANGED <<grid, status_ok, shift_ub, fresh, stack, ret, input, pre, out, probe, good_leaves>>

\* Sudoku::solve_bruteforce_style up to its call of bruteforce_node.  (The
\* second conjunct is a bound of the model, not of the code: the exhaustive
\* search is started only on boards with at most MaxBlank undetermined cells.)
solve_bruteforce_style ==
  /\ call = "none"
  /\ status_ok => UnknownCount(grid) <= MaxBlank
  /\ pre' = Object
  /\ IF ~status_ok
       THEN /\ result' = Outcome("solve_bruteforce_style", "logic_error",
                                 FALSE, FALSE, FALSE)
            /\ verdict' = NoVerdict
            /\ UNCHANGED <<call, stack>>
       ELSE /\ result' = NoOutcome
            /\ call' = "solve_bruteforce_style"
            /\ stack' = <<Frame("bruteforce_node", FALSE, 0, 0, grid)>>
            /\ verdict' = IF verdict.has /\ verdict.board = grid
                            THEN verdict ELSE NoVerdict
  /\ input' = <<>>
  /\ out' = NoOut
  /\ ret' = NoRet
  /\ good_leaves' = 0
  /\ UNCHANGED <<grid, status_ok, shift_ub, fresh, probe>>

\* Sudoku::solve_bruteforce_style once bruteforce_node has returned.
solve_bruteforce_return ==
  /\ call = "solve_bruteforce_style"
  /\ Depth = 0
  /\ ret.kind = "bool"
  /\ call' = "none"
  /\ result' = Outcome("solve_bruteforce_style", "void", FALSE, FALSE, TRUE)
  /\ UNCHANGED <<grid, status_ok, shift_ub, fresh, stack, ret, input, pre, out, probe, good_leaves,
                 verdict>>

\* Sudoku::singular up to its call of singular_decider, or to its own return
\* when it does not get that far.
singular ==
  /\ call = "none"
  /\ pre' = [Object EXCEPT !.rejected = /\ result.op = "read_puzzle_from_string"
                                        /\ result.parsed
                                        /\ result.val = "false"]
  /\ IF ~status_ok
       THEN /\ result' = Outcome("singular", "logic_error", FALSE, FALSE, FALSE)
            /\ UNCHANGED <<call, stack>>
       ELSE IF validate(grid)
         THEN /\ result' = NoOutcome
              /\ call' = "singular"
              /\ stack' = <<Frame("singular_decider", FALSE, 0, 0, grid)>>
         ELSE /\ result' = Outcome("singular", "false", FALSE, FALSE, TRUE)
              /\ UNCHANGED <<call, stack>>
  /\ input' = <<>>
  /\ out' = NoOut
  /\ verdict' = NoVerdict
  /\ ret' = NoRet
  /\ good_leaves' = 0
  /\ UNCHANGED <<grid, status_ok, shift_ub, fresh, probe>>

\* Sudoku::singular once singular_decider has returned.
singular_return ==
  /\ call = "singular"
  /\ Depth = 0
  /\ ret.kind = "int"
  /\ call' = "none"
  /\ result' = Outcome("singular", IF ret.n = 1 THEN "true" ELSE "false",
                       FALSE, FALSE, TRUE)
  /\ UNCHANGED <<grid, status_ok, shift_ub, fresh, stack, ret, input, pre, out, probe, good_leaves,
                 verdict>>

-----------------------------------------------------------------------------
(* The boards and texts the methods are given                              *)

\* The sides of the generated boards.
Sides == {1, 4, 9, 16, 25}

\* A solved board of side n.
Pattern(n) ==
  LET r == NRoot(n) IN
    [dim |-> n,
     m   |-> [y \in 0..(n - 1) |-> [x \in 0..(n - 1) |->
                (((y % r) * r + (y \div r) + x) % n) + 1]]]

\* The solved board the generated boards of side n are cut from; for side 4
\* the one whose rows are 3 2 1 4 / 1 4 3 2 / 2 3 4 1 / 4 1 2 3.
Base(n) ==
  IF n = 4
    THEN GridSet(GridSet(GridSet(GridSet(Pattern(4), 0, 0, 3), 2, 0, 1), 0, 1, 1), 2, 1, 3)
    ELSE Pattern(n)

\* The cells (x, y) a generated board may leave undetermined.
BlankCells(n) ==
  CASE n = 4  -> {<<0, 0>>, <<2, 0>>, <<0, 1>>, <<2, 1>>, <<3, 3>>}
    [] n = 9  -> {<<4, 4>>}
    [] n = 16 -> {<<15, 15>>}
    [] OTHER  -> {<<0, 0>>}

\* Base(n) with cell (2, 1) holding v (side 4 only) and the cells of blanks
\* undetermined.
Board(n, blanks, v) ==
  [dim |-> n,
   m   |-> [y \in 0..(n - 1) |-> [x \in 0..(n - 1) |->
              IF <<x, y>> \in blanks THEN UNKNOWN
              ELSE IF n = 4 /\ <<x, y>> = <<2, 1>> THEN v
              ELSE Base(n).m[y][x]]]]

BoardsOf(n) ==
  {Board(n, B, v) :
     B \in {S \in SUBSET BlankCells(n) : Cardinality(S) <= MaxBlank},
     v \in (IF n = 4 THEN 1..4 ELSE {0})}

\* A board of side 4 with three completions: Base(4) with seven cells
\* undetermined.
WideBoard ==
  Board(4, {<<2, 1>>, <<3, 1>>, <<1, 2>>, <<3, 2>>, <<1, 3>>, <<2, 3>>, <<3, 3>>}, 3)

Boards == UNION {BoardsOf(n) : n \in Sides} \cup {WideBoard}

\* The text of a cell, of a row of tokens and of a sequence of such rows.
Token(v) == IF v = UNKNOWN THEN <<"?">> ELSE IntToChars(v)

RECURSIVE JoinRange(_, _, _, _)
JoinRange(parts, sep, lo, hi) ==
  IF lo > hi THEN <<>>
  ELSE IF lo = hi THEN parts[lo]
  ELSE LET mid == (lo + hi) \div 2
       IN JoinRange(parts, sep, lo, mid) \o <<sep>> \o JoinRange(parts, sep, mid + 1, hi)

JoinWith(parts, sep) == JoinRange(parts, sep, 1, Len(parts))

Doc(g) == [y \in 1..g.dim |-> [x \in 1..g.dim |-> Token(g.m[y - 1][x - 1])]]

Text(doc) == JoinWith([y \in 1..Len(doc) |-> JoinWith(doc[y], " ")], "\n")

\* The texts of the search runs: every generated board, written as to_s
\* writes it.
SearchTexts == {Text(Doc(b)) : b \in Boards}

\* The generated boards the life-cycle runs load: those of side 1 and, of
\* side 4, the ones with no undetermined cell, with one, and with two.
LoadBoards ==
  BoardsOf(1) \cup
  {Board(4, B, v) : B \in {{}, {<<0, 0>>}, {<<2, 0>>, <<0, 1>>}}, v \in {1, 3}}

\* Tokens that are neither ? nor a decimal integer of [1, 4].
BadTokens ==
  {<<"5">>, <<"0">>, <<"x">>, <<"4", "x">>, <<"-", "1">>, <<>>,
   <<"9", "9", "9", "9", "9", "9", "9", "9", "9", "9", "9">>}

Unknowns(k) == [i \in 1..k |-> <<"?">>]

\* The texts of the life-cycle runs: the boards above; the solved board of
\* side 4 with the second token of its second line replaced by a bad token,
\* with a newline after its last line, and with its second line one token
\* short; its first line followed by one line of four ? and nothing else, and
\* the same with a newline after it; the empty text; "1 1\n"; a line of 81
\* tokens; and "2".
LifecycleTexts ==
  {Text(Doc(b)) : b \in LoadBoards}
    \cup {Text([Doc(Base(4)) EXCEPT ![2][2] = t]) : t \in BadTokens}
    \cup {Text(Doc(Base(4))) \o <<"\n">>,
          Text([Doc(Base(4)) EXCEPT ![2] = SubSeq(@, 1, 3)]),
          Text(<<Doc(Base(4))[1], Unknowns(4)>>),
          Text(<<Doc(Base(4))[1], Unknowns(4)>>) \o <<"\n">>,
          <<>>,
          <<"1", " ", "1", "\n">>,
          Text(<<Unknowns(81)>>),
          <<"2">>}

-----------------------------------------------------------------------------
(* Grid and Validator, called directly on the grid                         *)

\* The sides of the boards the Validator is called on: every perfect square
\* the loader accepts.
AllSides == {1, 4, 9, 16, 25, 36, 49, 64}

\* The sides a Grid is constructed with or reset to.
SmallSides == {0, 1, 4}

\* The most calls of set made on a grid before it is constructed or assigned
\* again.
MaxSets == 1

\* What an index outside [0, n) does to matrix[y][x]: BOOST_ASSERT ends the
\* process, or (assertions compiled out) the element at the linear offset
\* y * n + x is accessed.
RangeOutcomes == {"assert", "unchecked"}

\* What a read outside the array may give.
Garbage == {0, UNKNOWN, 7}

\* The coordinates and values the direct calls are made with: the first and
\* last index, and the first index out of range.
Coords(n) == {c \in {0, n - 1, n} : c >= 0}

SetValues(n) == {UNKNOWN, n}

Alive == call = "none" /\ probe.outcome # "abort"

GridFrame == UNCHANGED <<status_ok, shift_ub, fresh, call, stack, ret, result,
                         input, pre, out, verdict, good_leaves>>

\* Grid::Grid(n), the new grid taking the place of the one under test.
GridNew(n) ==
  /\ Alive
  /\ grid' = Grid(n)
  /\ probe' = [NoProbe EXCEPT !.op = "Grid", !.i = n, !.outcome = "returned"]
  /\ GridFrame

\* Grid::operator=, from the board b.
GridAssign(b) ==
  /\ Alive
  /\ grid' = b
  /\ probe' = [NoProbe EXCEPT !.op = "assign", !.outcome = "returned"]
  /\ GridFrame

\* Grid::reset(n) called on the grid.
GridResetCall(n) ==
  /\ Alive
  /\ grid' = GridReset(grid, n)
  /\ probe' = [NoProbe EXCEPT !.op = "reset", !.i = n, !.sets = probe.sets,
                              !.outcome = "returned"]
  /\ GridFrame

\* Grid::get(x, y) called on the grid.
GridGetCall(x, y) ==
  /\ Alive
  /\ LET n == grid.dim
         p == [NoProbe EXCEPT !.op = "get", !.x = x, !.y = y, !.sets = probe.sets]
     IN IF x < n /\ y < n
          THEN probe' = [p EXCEPT !.val = GridGet(grid, x, y), !.outcome = "returned"]
          ELSE \E o \in RangeOutcomes :
                 IF o = "assert" THEN probe' = [p EXCEPT !.outcome = "abort"]
                 ELSE IF y * n + x < n * n
                   THEN probe' = [p EXCEPT !.val = GridGet(grid, (y * n + x) % n,
                                                           (y * n + x) \div n),
                                           !.outcome = "returned"]
                 ELSE \E v \in Garbage :
                        probe' = [p EXCEPT !.val = v, !.outcome = "returned"]
  /\ UNCHANGED grid
  /\ GridFrame

\* Grid::set(x, y, i) called on the grid.
GridSetCall(x, y, i) ==
  /\ Alive
  /\ probe.sets < MaxSets
  /\ LET n == grid.dim
         p == [NoProbe EXCEPT !.op = "set", !.x = x, !.y = y, !.i = i,
                              !.before = grid, !.sets = probe.sets + 1]
     IN IF x < n /\ y < n
          THEN /\ grid' = GridSet(grid, x, y, i)
               /\ probe' = [p EXCEPT !.outcome = "returned"]
          ELSE \E o \in RangeOutcomes :
                 IF o = "assert"
                   THEN /\ grid' = grid
                        /\ probe' = [p EXCEPT !.outcome = "abort"]
                 ELSE /\ grid' = IF y * n + x < n * n
                                   THEN GridSet(grid, (y * n + x) % n, (y * n + x) \div n, i)
                                   ELSE grid
                      /\ probe' = [p EXCEPT !.outcome = "returned"]
  /\ GridFrame

\* Validator::good_colors(grid, x, y), with the three masks it computes.
good_colors_call(x, y) ==
  /\ Alive
  /\ x < grid.dim /\ y < grid.dim
  /\ LET r == NRoot(grid.dim) IN
       probe' = [NoProbe EXCEPT
                   !.op = "good_colors", !.x = x, !.y = y, !.sets = probe.sets,
                   !.row_mask = row_colors(grid, y),
                   !.col_mask = column_colors(grid, x),
                   !.block_mask = block_colors(grid, (x \div r) * r, (y \div r) * r),
                   !.mask = good_colors(grid, x, y),
                   !.outcome = "returned"]
  /\ UNCHANGED grid
  /\ GridFrame

\* Validator::is_good_board(grid)
is_good_board_call ==
  /\ Alive
  /\ probe' = [NoProbe EXCEPT !.op = "is_good_board", !.sets = probe.sets,
                              !.b = is_good_board(grid), !.outcome = "returned"]
  /\ UNCHANGED grid
  /\ GridFrame

\* The boards the grid is assigned from: a solved board of every side.
TestBoards == {Pattern(n) : n \in AllSides}

\* Grid and Validator called directly, in any order.
NextGrid ==
  \/ \E n \in SmallSides : GridNew(n)
  \/ \E b \in TestBoards : GridAssign(b)
  \/ \E n \in SmallSides : GridResetCall(n)
  \/ \E x \in Coords(grid.dim), y \in Coords(grid.dim) : GridGetCall(x, y)
  \/ \E x \in Coords(grid.dim), y \in Coords(grid.dim), i \in SetValues(grid.dim) :
       GridSetCall(x, y, i)
  \/ \E x \in Coords(grid.dim), y \in Coords(grid.dim) : good_colors_call(x, y)
  \/ is_good_board_call

-----------------------------------------------------------------------------
(* Specifications                                                          *)

Init ==
  /\ grid = Grid(0)
  /\ status_ok = FALSE
  /\ shift_ub \in ShiftOutcomes
  /\ fresh = TRUE
  /\ call = "none"
  /\ stack = <<>>
  /\ ret = NoRet
  /\ result = NoOutcome
  /\ input = <<>>
  /\ pre = NoObject
  /\ out = NoOut
  /\ verdict = NoVerdict
  /\ probe = NoProbe
  /\ good_leaves = 0

Search ==
  \/ ColorEnter \/ ColorTry \/ ColorResume
  \/ BruteEnter \/ BruteTry \/ BruteResume
  \/ DeciderEnter \/ DeciderTry \/ DeciderResume

Solving ==
  \/ solve_colorability_style \/ solve_colorability_return
  \/ solve_bruteforce_style \/ solve_bruteforce_return
  \/ singular \/ singular_return

\* The life cycle of a Sudoku object: any method at any time, on texts that
\* are well formed or not.
Next ==
  \/ Construct
  \/ \E s \in LifecycleTexts : read_puzzle_from_string(s)
  \/ print
  \/ to_s
  \/ Solving
  \/ Search

Spec == Init /\ [][Next]_vars

\* The texts a search run reads: any generated board into a fresh object;
\* after that what to_s or print has just written, and again the text of the
\* board color_node has just been run on.
SearchInputs ==
  IF fresh /\ ~out.has THEN SearchTexts
  ELSE (IF out.has THEN {out.text} ELSE {})
         \cup (IF verdict.has THEN {Text(Doc(verdict.board))} ELSE {})

\* The searches, and the texts written, on every generated board.
NextSearch ==
  \/ Construct
  \/ \E s \in SearchInputs : read_puzzle_from_string(s)
  \/ print
  \/ to_s
  \/ Solving
  \/ Search

SpecSearch == Init /\ [][NextSearch]_vars

SpecGrid == Init /\ [][NextGrid]_vars

\* A public method that has been called runs on: the steps of its search and
\* its return are taken as long as they are possible.
Progress == Search \/ solve_colorability_return \/ solve_bruteforce_return
              \/ singular_return

\* The searches on the generated boards of side 1 and 4, the sides on which
\* the generated boards have more than one undetermined cell.
SmallInputs ==
  IF fresh /\ ~out.has
    THEN {Text(Doc(b)) : b \in BoardsOf(1) \cup BoardsOf(4) \cup {WideBoard}}
    ELSE SearchInputs

NextSmall ==
  \/ Construct
  \/ \E s \in SmallInputs : read_puzzle_from_string(s)
  \/ print
  \/ to_s
  \/ Solving
  \/ Search

SpecSearchFair == Init /\ [][NextSmall]_vars /\ WF_vars(Progress)

-----------------------------------------------------------------------------
(* The vocabulary of the properties                                        *)

Cells(n) == (0..(n - 1)) \X (0..(n - 1))

\* The cell of column c[1] and row c[2].
At(g, c) == g.m[c[2]][c[1]]

\* Every cell is undetermined or in [1, N].
CellsValid(g) == \A c \in Cells(g.dim) : At(g, c) = UNKNOWN \/ At(g, c) \in 1..g.dim

IsSquare(n) == \E r \in 1..8 : r * r = n

\* The rows, columns and blocks of a board of side n, as sets of cells.
Units(n) ==
  LET r == CHOOSE q \in 0..n : q * q = n IN
    {{<<x, y>> : x \in 0..(n - 1)} : y \in 0..(n - 1)}
      \cup {{<<x, y>> : y \in 0..(n - 1)} : x \in 0..(n - 1)}
      \cup {{<<bx * r + dx, by * r + dy>> : dx \in 0..(r - 1), dy \in 0..(r - 1)} :
              bx \in 0..(r - 1), by \in 0..(r - 1)}

\* Partial validity: no value appears twice among the determined cells of a
\* row, column or block.
PartiallyValid(g) ==
  \A u \in Units(g.dim) : \A c \in u : \A d \in u :
    (c # d /\ At(g, c) # UNKNOWN) => At(g, c) # At(g, d)

\* Full validity: every row, column and block holds each value of [1, N]
\* exactly once.
FullyValid(g) == \A u \in Units(g.dim) : {At(g, c) : c \in u} = 1..g.dim

\* b has the side of a and the value of a in every cell a determines.
Agrees(a, b) ==
  /\ a.dim = b.dim
  /\ \A c \in Cells(a.dim) : At(a, c) # UNKNOWN => At(b, c) = At(a, c)

\* The completions of g: the ways to fill its undetermined cells that pass
\* full validity.
Completions(g) ==
  LET U == {c \in Cells(g.dim) : At(g, c) = UNKNOWN}
      Fill(f) == [dim |-> g.dim,
                  m   |-> [y \in 0..(g.dim - 1) |-> [x \in 0..(g.dim - 1) |->
                             IF <<x, y>> \in U THEN f[<<x, y>>] ELSE g.m[y][x]]]]
  IN {f \in [U -> 1..g.dim] : FullyValid(Fill(f))}

\* The fields of s[lo..hi] between occurrences of sep.
RECURSIVE FieldsRange(_, _, _, _)
FieldsRange(s, sep, lo, hi) ==
  IF lo > hi THEN << <<>> >>
  ELSE IF lo = hi THEN (IF s[lo] = sep THEN << <<>>, <<>> >> ELSE << <<s[lo]>> >>)
  ELSE LET mid   == (lo + hi) \div 2
           left  == FieldsRange(s, sep, lo, mid)
           right == FieldsRange(s, sep, mid + 1, hi)
       IN SubSeq(left, 1, Len(left) - 1)
            \o << left[Len(left)] \o right[1] >>
            \o Tail(right)

\* The lines of a text, a newline ending the line before it.
Lines(s) ==
  LET f == FieldsRange(s, "\n", 1, Len(s))
  IN IF f[Len(f)] = <<>> THEN SubSeq(f, 1, Len(f) - 1) ELSE f

Tokens(line) == FieldsRange(line, " ", 1, Len(line))

\* The grammar of the text exchange format: line 1 has N tokens, N is a
\* perfect square, N <= 64, each of the next N - 1 lines has N tokens, every
\* token is ? or a decimal integer of [1, N].
GrammarOK(s) ==
  LET lines == Lines(s)
      N     == IF lines = <<>> THEN 0 ELSE Len(Tokens(lines[1]))
  IN /\ IsSquare(N)
     /\ Len(lines) >= N
     /\ \A y \in 1..N :
          /\ Len(Tokens(lines[y])) = N
          /\ \A x \in 1..N :
               \/ Tokens(lines[y])[x] = <<"?">>
               \/ \E v \in 1..N : Tokens(lines[y])[x] = NatToChars(v)

\* The board a text of the grammar denotes.
GrammarBoard(s) ==
  LET lines == Lines(s)
      N     == Len(Tokens(lines[1]))
      Value(t) == IF t = <<"?">> THEN UNKNOWN ELSE CHOOSE v \in 1..N : t = NatToChars(v)
  IN [dim |-> N,
      m   |-> [y \in 0..(N - 1) |-> [x \in 0..(N - 1) |->
                 Value(Tokens(lines[y + 1])[x + 1])]]]

\* The cells of row y, of column x and of the block that holds (x, y).
RowOf(n, y) == {<<x, y>> : x \in 0..(n - 1)}

ColumnOf(n, x) == {<<x, y>> : y \in 0..(n - 1)}

BlockOf(n, x, y) ==
  LET r == CHOOSE q \in 0..n : q * q = n IN
    {<<(x \div r) * r + dx, (y \div r) * r + dy>> : dx \in 0..(r - 1), dy \in 0..(r - 1)}

\* The values the determined cells among cells hold, and the bits that stand
\* for a set of values: bit v - 1 for value v.
Values(g, cells) == {At(g, c) : c \in cells} \ {UNKNOWN}

Bits(vs) == {v - 1 : v \in vs}

\* Cell a comes before cell b in row-major order.
Before(a, b) == a[2] < b[2] \/ (a[2] = b[2] /\ a[1] < b[1])

\* The undetermined cells of g.
UnknownCells(g) == {c \in Cells(g.dim) : At(g, c) = UNKNOWN}

\* g with its undetermined cells filled as f says.
FillWith(g, f) ==
  [dim |-> g.dim,
   m   |-> [y \in 0..(g.dim - 1) |-> [x \in 0..(g.dim - 1) |->
              IF g.m[y][x] = UNKNOWN THEN f[<<x, y>>] ELSE g.m[y][x]]]]

\* The completion of g that is smallest when the cells are compared in
\* row-major order (g has a completion).
LeastCompletion(g) ==
  LET U  == UnknownCells(g)
      CS == Completions(g)
      Less(f, h) == \E c \in U : /\ f[c] < h[c]
                                 /\ \A d \in U : Before(d, c) => f[d] = h[d]
  IN FillWith(g, CHOOSE f \in CS : \A h \in CS : h = f \/ Less(f, h))

\* The public method that runs the search fn.
Method(fn) ==
  CASE fn = "color_node"      -> "solve_colorability_style"
    [] fn = "bruteforce_node" -> "solve_bruteforce_style"
    [] OTHER                  -> "singular"

\* A call of fn has just returned (ret), to a caller of the same name that
\* waits for it or to the public method, which may have returned since.
Returned(fn) ==
  /\ ret.kind # "none"
  /\ IF Depth > 0
       THEN Top.fn = fn /\ Top.pc = "wait"
       ELSE call = Method(fn) \/ (call = "none" /\ result.op = Method(fn))

\* The board that call was given, as it is now.
ReturnedBoard == IF Depth = 0 THEN grid ELSE Top.new_grid

\* The public method op has completed.
Completed(op) == call = "none" /\ result.op = op

-----------------------------------------------------------------------------
(* Properties of the searches                                              *)

C2_FailureLeavesBoard ==
  (Returned("color_node") \/ Returned("bruteforce_node")) /\ ~ret.b =>
    ReturnedBoard = ret.entry

\* A call below the outermost one, which had cloned its board and tried
\* values in the clone, has reported failure to its caller.
C2_Witness ==
  /\ Returned("color_node") \/ Returned("bruteforce_node")
  /\ ~ret.b
  /\ Depth >= 1
  /\ UnknownCount(ret.entry) >= 1

-----------------------------------------------------------------------------
(* Properties of the life cycle                                            *)

\* C5: Whenever good() is true, every cell of the stored board is
\* undetermined or in [1, N] and the board passes partial validity.
C5_GoodImpliesValid == status_ok => CellsValid(grid) /\ PartiallyValid(grid)

C7_NotReadyAborts ==
  /\ call # "none" => pre.ok
  /\ ( /\ call = "none"
       /\ result.op \in {"print", "solve_colorability_style",
                         "solve_bruteforce_style", "singular"}
       /\ ~pre.ok ) =>
       /\ result.val = "logic_error"
       /\ ~result.read
       /\ grid = pre.grid
       /\ ~status_ok
       /\ stack = <<>>
       /\ ret.kind = "none"

\* singular() has aborted on an object whose only loads have failed and left
\* a board of side 4 behind.
C7_Witness ==
  /\ Completed("singular")
  /\ ~pre.ok
  /\ pre.grid.dim = 4
  /\ result.val = "logic_error"
  /\ grid = pre.grid

\* C8: On a fresh object a load returns true exactly when the text satisfies
\* the grammar and the board it denotes passes partial validity, and returns
\* false for every other text.
C8_LoadIffGrammar ==
  (Completed("read_puzzle_from_string") /\ result.first) =>
    result.val = (IF GrammarOK(input) /\ PartiallyValid(GrammarBoard(input))
                    THEN "true" ELSE "false")

\* C9: Parsing the text to_s has written for a board of side N, N a perfect
\* square, whose cells are undetermined or in [1, N], gives a board of the
\* same side with the same value in every cell.
C9_RoundTrip ==
  ( /\ Completed("read_puzzle_from_string")
    /\ out.has
    /\ IsSquare(out.of.dim)
    /\ CellsValid(out.of) ) =>
    /\ result.parsed
    /\ grid.dim = out.of.dim
    /\ grid = out.of

\* The text written for a board of side 16 with an undetermined cell and
\* two-digit values has been parsed again.
C9_Witness ==
  /\ Completed("read_puzzle_from_string")
  /\ out.has
  /\ out.of.dim = 16
  /\ UnknownCount(out.of) = 1
  /\ CellsValid(out.of)
  /\ result.parsed
  /\ grid = out.of

\* C10: solve_colorability_style and solve_bruteforce_style on a ready object
\* give their caller true when a solution was found and false when not.
C10_SolveTellsCaller ==
  ( /\ Completed("solve_colorability_style") \/ Completed("solve_bruteforce_style")
    /\ pre.ok ) =>
    result.val = (IF ret.b THEN "true" ELSE "false")

-----------------------------------------------------------------------------
(* Properties of Grid and Validator                                        *)

\* C11: For every side the loader accepts, the masks are exact: the row,
\* column and block masks good_colors computes have bit v - 1 set exactly for
\* the values v present there, and (1 << N) - 1 has exactly the bits 0..N-1.
C11_MasksExact ==
  /\ (IsSquare(grid.dim) /\ CellsValid(grid)) => LowMask(grid.dim) = 0..(grid.dim - 1)
  /\ (probe.op = "good_colors" /\ CellsValid(grid)) =>
       /\ probe.row_mask = Bits(Values(grid, RowOf(grid.dim, probe.y)))
       /\ probe.col_mask = Bits(Values(grid, ColumnOf(grid.dim, probe.x)))
       /\ probe.block_mask = Bits(Values(grid, BlockOf(grid.dim, probe.x, probe.y)))

\* C12: get(x, y) and set(x, y, value) with x >= N or y >= N fail with an
\* out-of-range error, and such a set changes no cell; with coordinates in
\* range set changes the cell (x, y) and no other.
C12_RangeChecked ==
  /\ (probe.op = "get" /\ (probe.x >= grid.dim \/ probe.y >= grid.dim)) =>
       probe.outcome = "out_of_range"
  /\ (probe.op = "set" /\ (probe.x >= probe.before.dim \/ probe.y >= probe.before.dim)) =>
       /\ probe.outcome = "out_of_range"
       /\ grid = probe.before
  /\ (probe.op = "set" /\ probe.x < probe.before.dim /\ probe.y < probe.before.dim) =>
       /\ probe.outcome = "returned"
       /\ grid.dim = probe.before.dim
       /\ \A c \in Cells(grid.dim) :
            At(grid, c) = (IF c = <<probe.x, probe.y>> THEN probe.i
                           ELSE At(probe.before, c))

\* C13: After Grid(N), and after reset(N) from any contents, every one of the
\* N x N cells is undetermined.
C13_AllUndetermined ==
  probe.op \in {"Grid", "reset"} =>
    /\ grid.dim = probe.i
    /\ \A c \in Cells(grid.dim) : At(grid, c) = UNKNOWN

\* C14: On a board whose cells are undetermined or in [1, N], good_colors(x, y)
\* has bit v - 1 set exactly for the values v of [1, N] that no determined
\* cell of row y, column x or the block of (x, y) holds, and no other bit.
C14_GoodColorsExact ==
  (probe.op = "good_colors" /\ CellsValid(grid)) =>
    probe.mask = Bits((1..grid.dim) \ (Values(grid, RowOf(grid.dim, probe.y))
                                        \cup Values(grid, ColumnOf(grid.dim, probe.x))
                                        \cup Values(grid, BlockOf(grid.dim, probe.x, probe.y))))

\* C15: is_good_board returns true exactly when the board has no undetermined
\* cell and every row, column and block holds each value of [1, N] once.
C15_GoodBoardIffFullyValid ==
  probe.op = "is_good_board" =>
    (probe.b <=> (UnknownCount(grid) = 0 /\ FullyValid(grid)))

-----------------------------------------------------------------------------
(* Properties of the shape of the searches                                 *)

\* C16: In the uniqueness decider, once a recursive call has returned 2
\* (MULTIPLE), the very next step of the enclosing call is to return 2 itself,
\* without trying a value or evaluating a leaf, and so on up to the outermost
\* call; and one call of singular never reaches more than two boards without
\* undetermined cell that is_good_board accepts.
C16_MultiplePropagates ==
  /\ []((call = "singular" \/ Completed("singular")) => good_leaves <= 2)
  /\ [][(call = "singular" /\ Depth > 0 /\ ret.kind = "int" /\ ret.n = 2)
          => /\ Depth' = Depth - 1
             /\ ret'.kind = "int" /\ ret'.n = 2
             /\ good_leaves' = good_leaves]_vars

\* singular has returned after its decider found two of the three or more
\* completions of the board.
C16_Witness ==
  /\ Completed("singular")
  /\ ret.kind = "int" /\ ret.n = 2
  /\ good_leaves = 2
  /\ PartiallyValid(pre.grid)
  /\ Cardinality(Completions(pre.grid)) >= 3

\* C18: In every call of every search, the cells that come before the resume
\* coordinate (cur_x, cur_y) in row-major order are determined on the board
\* the call was given; find_unknown from the resume coordinate finds a cell
\* exactly when the board has an undetermined cell, and that cell is the first
\* undetermined cell of the board in row-major order.
C18_ResumeFindsFirst ==
  call # "none" =>
    \A d \in 1..Depth :
      LET f == stack[d]
          u == find_unknown(f.entry, f.cur_x, f.cur_y)
          U == UnknownCells(f.entry)
      IN /\ \A c \in U : ~Before(c, <<f.cur_x, f.cur_y>>)
         /\ u.found <=> U # {}
         /\ u.found => /\ <<u.x, u.y>> \in U
                       /\ \A c \in U : ~Before(c, <<u.x, u.y>>)

\* A call resumes from a column other than 0 and the next undetermined cell is
\* on a later row, to the left of that column.
C18_Witness ==
  /\ call # "none"
  /\ Depth >= 2
  /\ Top.pc = "enter"
  /\ Top.cur_x > 0
  /\ LET u == find_unknown(Top.entry, Top.cur_x, Top.cur_y)
     IN u.found /\ u.y > Top.cur_y /\ u.x < Top.cur_x

C17_SearchTerminates ==
  /\ [](call # "none" => Depth - 1 <= UnknownCount(pre.grid))
  /\ (call # "none") ~> (call = "none")

\* A search on a board with three or more undetermined cells is as deep as
\* the board has undetermined cells.
C17_Witness ==
  /\ call # "none"
  /\ CellsValid(pre.grid)
  /\ UnknownCount(pre.grid) >= 3
  /\ Depth - 1 = UnknownCount(pre.grid)

-----------------------------------------------------------------------------
(* Properties of singular                                                  *)

\* C21: singular() does not change the Sudoku object: while it runs and once
\* it has returned, whatever it returns, the stored board is cell for cell the
\* board it was called on and good() is what it was.
C21_SingularKeepsObject ==
  (call = "singular" \/ Completed("singular")) =>
    /\ grid = pre.grid
    /\ status_ok = pre.ok

\* singular() has returned false after its decider wrote values into clones
\* of a board with two or more undetermined cells and found two completions.
C21_Witness ==
  /\ Completed("singular")
  /\ pre.ok
  /\ UnknownCount(pre.grid) >= 2
  /\ ret.kind = "int" /\ ret.n = 2
  /\ result.val = "false"
  /\ grid = pre.grid

====
